---- MODULE Spec2Model ----
(***************************************************************************)
(* Model of hockey-seo-backend/server.js: the POST /api/analyze handler,   *)
(* the DataForSEO client (submit, wait, retrieve), the team-site matcher,  *)
(* the opportunity scorer, the gap classifier and the simulation fallback. *)
(*                                                                         *)
(* A JavaScript string is a sequence of tokens (a word, " ", ".", ...),    *)
(* so String.includes is a search for a contiguous run of tokens, split    *)
(* cuts at the " " tokens and toLowerCase maps each token.  The empty      *)
(* sequence is the empty string; since every test the code makes on a      *)
(* possibly missing string is a truthiness test, it also stands for an     *)
(* undefined or null string.                                               *)
(***************************************************************************)
EXTENDS Integers, Sequences, FiniteSets, TLC

VARIABLES
    login,      \* DATAFORSEO_CONFIG.login is set (truthy)
    password,   \* DATAFORSEO_CONFIG.password is set (truthy)
    request,    \* req.body of the request being handled
    pc,         \* where the handler is suspended
    i,          \* loop index of the handler
    analyses,   \* the handler's analyses array
    taskId,     \* getRealSERPData's taskId
    reply,      \* the provider's HTTP reply the handler has not consumed yet
    calls,      \* history: the requests sent to the provider, in order
    collected,  \* history: analyses as it was before the in-place sort
    response,   \* the HTTP response sent to the caller
    fnIn,       \* arguments of a direct call of a pure helper
    fnOut       \* result of that call

vars == <<login, password, request, pc, i, analyses, taskId, reply, calls,
          collected, response, fnIn, fnOut>>

(***************************************************************************)
(* Bounds of the model.                                                    *)
(***************************************************************************)
MaxKeywords == 6
MaxRank == 11
MaxCompetitors == 2

(***************************************************************************)
(* Strings.                                                                *)
(***************************************************************************)
Sp == " "
Dot == "."

\* String.prototype.includes
includes(s, sub) ==
    \E k \in 0..(Len(s) - Len(sub)) : SubSeq(s, k + 1, k + Len(sub)) = sub

Lower(tok) ==
    CASE tok = "Boston" -> "boston"
      [] tok = "Bruins" -> "bruins"
      [] tok = "StubHub" -> "stubhub"
      [] OTHER -> tok

\* String.prototype.toLowerCase
toLowerCase(s) == [k \in 1..Len(s) |-> Lower(s[k])]

\* String.prototype.split(' ')
RECURSIVE split(_)
split(s) ==
    IF \A k \in 1..Len(s) : s[k] # Sp
    THEN <<s>>
    ELSE LET c == CHOOSE k \in 1..Len(s) :
                      s[k] = Sp /\ \A j \in 1..(k - 1) : s[j] # Sp
         IN  <<SubSeq(s, 1, c - 1)>> \o split(SubSeq(s, c + 1, Len(s)))

\* Array.prototype.slice(0, n)
slice(a, n) == SubSeq(a, 1, IF Len(a) < n THEN Len(a) ELSE n)

\* Array.prototype.filter(Boolean) on an array of strings
RECURSIVE filterBoolean(_)
filterBoolean(a) ==
    IF a = <<>> THEN <<>>
    ELSE (IF Head(a) = <<>> THEN <<>> ELSE <<Head(a)>>) \o filterBoolean(Tail(a))

Min(a, b) == IF a < b THEN a ELSE b
Max(a, b) == IF a > b THEN a ELSE b

(***************************************************************************)
(* The phrases the helpers look for, and the domains they name.            *)
(***************************************************************************)
FirstTime == <<"first", Sp, "time">>
WhatToExpect == <<"what", Sp, "to", Sp, "expect">>
Parking == <<"parking">>
Tickets == <<"tickets">>
Cheap == <<"cheap">>
Seating == <<"seating">>
Arena == <<"arena">>

Domain(name) == <<name, Dot, "com">>
TicketmasterCom == Domain("ticketmaster")
StubhubCom == Domain("stubhub")
SeatgeekCom == Domain("seatgeek")
VividseatsCom == Domain("vividseats")

(***************************************************************************)
(* isTeamSite                                                              *)
(***************************************************************************)
isTeamSite(domain, teamName) ==
    IF domain = <<>> THEN FALSE
    ELSE LET teamWords == split(toLowerCase(teamName))
             cleanDomain == toLowerCase(domain)
         IN  \E k \in 1..Len(teamWords) : includes(cleanDomain, teamWords[k])

(***************************************************************************)
(* calculateOpportunityScore                                               *)
(***************************************************************************)
ticketResellers == <<TicketmasterCom, StubhubCom, SeatgeekCom, VividseatsCom>>

calculateOpportunityScoreNoRankBranch(keyword, teamRank, competitors) ==
    LET s0 == 5
        s1 == s0 + (IF includes(keyword, FirstTime) \/ includes(keyword, WhatToExpect)
                    THEN 3 ELSE 0)
        s2 == s1 + (IF includes(keyword, Parking) THEN 2 ELSE 0)
        s3 == s2 + (IF includes(keyword, Tickets) \/ includes(keyword, Cheap)
                    THEN 2 ELSE 0)
        s4 == s3 + (IF includes(keyword, Seating) THEN 1 ELSE 0)
        s5 == s4 + (IF teamRank = -1 THEN 3
                    ELSE IF teamRank > 10 THEN 2
                    ELSE IF teamRank > 5 THEN 1
                    ELSE IF teamRank < 3 THEN -1
                    ELSE 0)
        hasTicketResellers ==
            \E c \in 1..Len(competitors) : \E r \in 1..Len(ticketResellers) :
                includes(competitors[c], ticketResellers[r])
        s6 == s5 + (IF hasTicketResellers THEN 1 ELSE 0)
    IN  Min(Max(s6, 3), 10)

calculateOpportunityScore(keyword, teamRank, competitors) ==
    LET s0 == 5
        s1 == s0 + (IF includes(keyword, FirstTime) \/ includes(keyword, WhatToExpect)
                    THEN 3 ELSE 0)
        s2 == s1 + (IF includes(keyword, Parking) THEN 2 ELSE 0)
        s3 == s2 + (IF includes(keyword, Tickets) \/ includes(keyword, Cheap)
                    THEN 2 ELSE 0)
        s4 == s3 + (IF includes(keyword, Seating) THEN 1 ELSE 0)
        s5 == s4 + (IF teamRank = -1 THEN 3
                    ELSE IF teamRank > 10 THEN 2
                    ELSE IF teamRank > 5 THEN 1
                    ELSE IF teamRank <= 3 THEN -1
                    ELSE 0)
        hasTicketResellers ==
            \E c \in 1..Len(competitors) : \E r \in 1..Len(ticketResellers) :
                includes(competitors[c], ticketResellers[r])
        s6 == s5 + (IF hasTicketResellers THEN 1 ELSE 0)
    IN  Min(Max(s6, 3), 10)

(***************************************************************************)
(* getGapType                                                              *)
(***************************************************************************)
gapResellers == {TicketmasterCom, StubhubCom, SeatgeekCom}

getGapTypeResellerFirst(keyword, competitors) ==
    IF includes(keyword, FirstTime) \/ includes(keyword, WhatToExpect)
    THEN "First-Timer Experience Gap"
    ELSE IF \E c \in 1..Len(competitors) : competitors[c] \in gapResellers
    THEN "Ticket Reseller Dominance"
    ELSE IF includes(keyword, Parking)
    THEN "Arena Information Gap"
    ELSE IF includes(keyword, Seating) \/ includes(keyword, Arena)
    THEN "Venue Experience Gap"
    ELSE "General Content Gap"

getGapType(keyword, competitors) ==
    IF includes(keyword, FirstTime) \/ includes(keyword, WhatToExpect)
    THEN "First-Timer Experience Gap"
    ELSE IF includes(keyword, Parking)
    THEN "Arena Information Gap"
    ELSE IF \E c \in 1..Len(competitors) : competitors[c] \in gapResellers
    THEN "Ticket Reseller Dominance"
    ELSE IF includes(keyword, Seating) \/ includes(keyword, Arena)
    THEN "Venue Experience Gap"
    ELSE "General Content Gap"

(***************************************************************************)
(* getContentSuggestion, getLLMStrategy                                    *)
(***************************************************************************)
getContentSuggestion(keyword) ==
    IF includes(keyword, FirstTime) \/ includes(keyword, WhatToExpect)
    THEN [title |-> "Complete First-Timer's Hockey Guide",
          format |-> "FAQ-style guide with arena tips and terminology",
          cta |-> "Buy Official Tickets"]
    ELSE IF includes(keyword, Parking)
    THEN [title |-> "Ultimate Arena Parking Guide",
          format |-> "Interactive map with pricing and walking times",
          cta |-> "Reserve Parking & Tickets"]
    ELSE IF includes(keyword, Seating)
    THEN [title |-> "Interactive Arena Seating Guide",
          format |-> "Visual seating chart with ice view photos",
          cta |-> "Find Your Perfect Seats"]
    ELSE [title |-> "Comprehensive Fan Guide",
          format |-> "Detailed FAQ with local tips",
          cta |-> "Get Tickets"]

getLLMStrategy(keyword) ==
    IF includes(keyword, FirstTime) \/ includes(keyword, WhatToExpect)
    THEN "Create conversational Q&A content optimized for voice search and AI assistants"
    ELSE IF includes(keyword, Parking) \/ includes(keyword, Seating)
    THEN "Use structured data and local context for location-based AI search"
    ELSE "Optimize with natural language and hockey-specific terminology for AI search"

(***************************************************************************)
(* Math.random() is a draw of a number of tenths, r / RandomDenominator.   *)
(***************************************************************************)
RandomDenominator == 10

\* The draws explored: of createSimulatedAnalysis's first and second
\* Math.random() (is the team found, and where), and of
\* generateSimulatedSearchVolume's.
NotFoundDraws == {2, 8}
RankDraws == {2, 8}
VolumeDraws == {5}

\* Math.floor(Math.random() * span)
floorRandom(r, span) == (r * span) \div RandomDenominator

generateSimulatedSearchVolume(keyword, r) ==
    IF includes(keyword, Tickets) \/ includes(keyword, Cheap)
    THEN floorRandom(r, 800) + 200
    ELSE IF includes(keyword, FirstTime) \/ includes(keyword, WhatToExpect)
    THEN floorRandom(r, 400) + 150
    ELSE IF includes(keyword, Parking)
    THEN floorRandom(r, 300) + 100
    ELSE floorRandom(r, 200) + 50

getSimulatedCompetitors(keyword) ==
    IF includes(keyword, Tickets)
    THEN <<StubhubCom, TicketmasterCom, SeatgeekCom>>
    ELSE IF includes(keyword, Parking)
    THEN <<Domain("spothero"), Domain("parkwhiz"), Domain("yelp")>>
    ELSE IF includes(keyword, FirstTime)
    THEN <<Domain("reddit"), Domain("tripadvisor"), Domain("hockeyforum")>>
    ELSE <<Domain("reddit"), Domain("yelp"), Domain("hockeydb")>>

\* teamRank as the record shows it: 'Not found' or `#${teamRank}`
displayRank(teamRank) ==
    IF teamRank = -1 THEN <<"Not found">> ELSE <<"#", teamRank>>


(***************************************************************************)
(* The request.  A keyword is a JavaScript value: a string, or (isString   *)
(* FALSE) a value of another type, a number say, that has no includes      *)
(* method.                                                                 *)
(***************************************************************************)
StrKw(s) == [isString |-> TRUE, s |-> s]
NumberKw == [isString |-> FALSE, s |-> <<>>]

BostonBruins == <<"Boston", Sp, "Bruins">>

KeywordPool ==
    << StrKw(<<"bruins", Sp, "tickets">>),
       StrKw(<<"bruins", Sp, "parking">>),
       StrKw(<<"first", Sp, "time", Sp, "at", Sp, "garden">>),
       StrKw(<<"arena", Sp, "seating">>),
       StrKw(<<"bruins", Sp, "hockey">>) >>

\* The k-th keyword of the requests' keyword lists.
KeywordAt(k) == KeywordPool[((k - 1) % Len(KeywordPool)) + 1]

\* The lists start at the pool's first keyword or at its fourth.
ListOffsets == {0, 3}

KeywordLists ==
    { [k \in 1..n |-> KeywordAt(k + off)] : n \in 0..MaxKeywords, off \in ListOffsets }
    \cup { <<KeywordAt(1), NumberKw>> }

Requests ==
    { [teamName |-> BostonBruins, league |-> "NHL", keywordsIsArray |-> TRUE,
       keywords |-> ks] : ks \in KeywordLists }
    \cup { [teamName |-> <<>>, league |-> "NHL", keywordsIsArray |-> TRUE,
            keywords |-> <<KeywordAt(1)>>],
           [teamName |-> BostonBruins, league |-> "NHL", keywordsIsArray |-> FALSE,
            keywords |-> <<>>] }

(***************************************************************************)
(* The provider's replies.  net: the fetch resolved; ok: response.ok;      *)
(* status_code and tasks: the JSON body.  A task has an id ("" when it has *)
(* none) and, when hasResult, a result array.  A result set has, when      *)
(* hasItems, an items array, and a cost (0 when it has none).              *)
(***************************************************************************)
Item(d) == [domain |-> d]

ResultSets ==
    { [hasItems |-> FALSE, items |-> <<>>, cost |-> 0],
      [hasItems |-> TRUE, items |-> <<>>, cost |-> 0],
      [hasItems |-> TRUE, cost |-> 2,
       items |-> << Item(<<"www", Dot, "stubhub", Dot, "com">>),
                    Item(<<"Bruins", Dot, "com">>),
                    Item(<<>>),
                    Item(Domain("reddit")),
                    Item(Domain("boston")) >>],
      [hasItems |-> TRUE, cost |-> 0,
       items |-> << Item(Domain("reddit")), Item(SeatgeekCom) >>] }

TaskT1 == <<"t1">>

Body(code, tasks) == [net |-> TRUE, ok |-> TRUE, status_code |-> code, tasks |-> tasks]
Task(id, hasResult, result) == [id |-> id, hasResult |-> hasResult, result |-> result]

NetworkError == [net |-> FALSE, ok |-> FALSE, status_code |-> 0, tasks |-> <<>>]
HttpError == [net |-> TRUE, ok |-> FALSE, status_code |-> 0, tasks |-> <<>>]

ProviderReplies ==
    { NetworkError, HttpError,
      Body(40000, <<Task(TaskT1, FALSE, <<>>)>>),
      Body(20000, <<>>),
      Body(20000, <<Task(<<>>, FALSE, <<>>)>>),
      Body(20000, <<Task(TaskT1, FALSE, <<>>)>>),
      Body(20000, <<Task(TaskT1, TRUE, <<>>)>>) }
    \cup { Body(20000, <<Task(TaskT1, TRUE, <<rs>>)>>) : rs \in ResultSets }

(***************************************************************************)
(* makeDataForSEORequest, once the fetch has settled with reply r.         *)
(***************************************************************************)
makeDataForSEORequestNoStatusCheck(r) ==
    IF ~r.net THEN [threw |-> TRUE, result |-> r]
    ELSE IF ~r.ok THEN [threw |-> TRUE, result |-> r]
    ELSE [threw |-> FALSE, result |-> r]

makeDataForSEORequest(r) ==
    IF ~r.net THEN [threw |-> TRUE, result |-> r]
    ELSE IF ~r.ok THEN [threw |-> TRUE, result |-> r]
    ELSE IF r.status_code # 20000 THEN [threw |-> TRUE, result |-> r]
    ELSE [threw |-> FALSE, result |-> r]

(***************************************************************************)
(* getRealSERPData, in the two halves its awaits cut it into.  serpData is *)
(* absent (null or undefined) or a result set.                             *)
(***************************************************************************)
AbsentSerp == [present |-> FALSE, hasItems |-> FALSE, items |-> <<>>, cost |-> 0]
PresentSerp(rs) ==
    [present |-> TRUE, hasItems |-> rs.hasItems, items |-> rs.items, cost |-> rs.cost]

\* task_post settled: the task id to wait for, or the function's return.
getRealSERPDataPostedNoIdCheck(r) ==
    LET taskResult == makeDataForSEORequest(r)
    IN  IF taskResult.threw
        THEN [returned |-> TRUE, taskId |-> <<>>, serpData |-> AbsentSerp]
        ELSE IF Len(taskResult.result.tasks) > 0
        THEN [returned |-> FALSE, taskId |-> taskResult.result.tasks[1].id,
              serpData |-> AbsentSerp]
        ELSE [returned |-> TRUE, taskId |-> <<>>, serpData |-> AbsentSerp]

getRealSERPDataPosted(r) ==
    LET taskResult == makeDataForSEORequest(r)
    IN  IF taskResult.threw
        THEN [returned |-> TRUE, taskId |-> <<>>, serpData |-> AbsentSerp]
        ELSE IF Len(taskResult.result.tasks) > 0 /\ taskResult.result.tasks[1].id # <<>>
        THEN [returned |-> FALSE, taskId |-> taskResult.result.tasks[1].id,
              serpData |-> AbsentSerp]
        ELSE [returned |-> TRUE, taskId |-> <<>>, serpData |-> AbsentSerp]

\* task_get settled: the function's return.
getRealSERPDataGot(r) ==
    LET resultsData == makeDataForSEORequest(r)
    IN  IF resultsData.threw THEN AbsentSerp
        ELSE IF Len(resultsData.result.tasks) > 0 /\ resultsData.result.tasks[1].hasResult
        THEN IF Len(resultsData.result.tasks[1].result) > 0
             THEN PresentSerp(resultsData.result.tasks[1].result[1])
             ELSE AbsentSerp
        ELSE AbsentSerp


(***************************************************************************)
(* createSimulatedAnalysis.  r1, r2: the draws of the team rank's two      *)
(* Math.random() calls; r3: the draw of the search volume's.               *)
(***************************************************************************)
simulatedRank(r1, r2) ==
    IF r1 * 10 > 6 * RandomDenominator THEN -1 ELSE floorRandom(r2, 10) + 1

createSimulatedAnalysis(keyword, teamName, r1, r2, r3) ==
    LET competitors == getSimulatedCompetitors(keyword)
        teamRank == simulatedRank(r1, r2)
    IN  [keyword |-> keyword,
         opportunity |-> calculateOpportunityScore(keyword, teamRank, competitors),
         gapType |-> getGapType(keyword, competitors),
         teamRank |-> displayRank(teamRank),
         competitors |-> slice(competitors, 3),
         contentSuggestion |-> getContentSuggestion(keyword),
         llmStrategy |-> getLLMStrategy(keyword),
         searchVolume |-> generateSimulatedSearchVolume(keyword, r3),
         isRealData |-> FALSE,
         cost |-> 0]

(***************************************************************************)
(* The handler's real-data branch.                                         *)
(***************************************************************************)
\* items.forEach((item, index) => { if (...) teamRank = index + 1 }), from
\* position index on, with teamRank so far.
RECURSIVE forEachTeamRank(_, _, _, _)
forEachTeamRank(items, teamName, index, teamRank) ==
    IF index > Len(items) THEN teamRank
    ELSE forEachTeamRank(items, teamName, index + 1,
             IF items[index].domain # <<>> /\ isTeamSite(items[index].domain, teamName)
             THEN index ELSE teamRank)

\* serpData && serpData.items
hasSerpItems(serpData) == serpData.present /\ serpData.hasItems

realAnalysis(keyword, teamName, serpData, r3) ==
    LET items == serpData.items
        top == slice(items, 3)
        competitors == filterBoolean([k \in 1..Len(top) |-> top[k].domain])
        teamRank == forEachTeamRank(items, teamName, 1, -1)
    IN  [keyword |-> keyword,
         opportunity |-> calculateOpportunityScore(keyword, teamRank, competitors),
         gapType |-> getGapType(keyword, competitors),
         teamRank |-> displayRank(teamRank),
         competitors |-> slice(competitors, 3),
         contentSuggestion |-> getContentSuggestion(keyword),
         llmStrategy |-> getLLMStrategy(keyword),
         searchVolume |-> generateSimulatedSearchVolume(keyword, r3),
         isRealData |-> TRUE,
         cost |-> serpData.cost]

\* Lines 238-273 once getRealSERPData has returned serpData: the record, or
\* threw when the exception leaves the inner try/catch (its catch block calls
\* createSimulatedAnalysis, which throws on a keyword that is no string).
analyzeReal(kw, teamName, serpData, r1, r2, r3) ==
    IF ~kw.isString THEN [threw |-> TRUE, analysis |-> <<>>]
    ELSE IF hasSerpItems(serpData)
    THEN [threw |-> FALSE, analysis |-> <<realAnalysis(kw.s, teamName, serpData, r3)>>]
    ELSE [threw |-> FALSE,
          analysis |-> <<createSimulatedAnalysis(kw.s, teamName, r1, r2, r3)>>]

\* Lines 274-277.
analyzeSimulated(kw, teamName, r1, r2, r3) ==
    IF ~kw.isString THEN [threw |-> TRUE, analysis |-> <<>>]
    ELSE [threw |-> FALSE,
          analysis |-> <<createSimulatedAnalysis(kw.s, teamName, r1, r2, r3)>>]

maxRealAnalyses == 3
maxProcessed == 5

\* The loop bound, Math.min(5, keywords.length).
processedCountUncapped(keywords) == Len(keywords)

processedCount(keywords) == Min(maxProcessed, Len(keywords))

eligibleNoCap(index, hasLogin, hasPassword) == hasLogin /\ hasPassword

\* i < maxRealAnalyses && DATAFORSEO_CONFIG.login && DATAFORSEO_CONFIG.password
eligibleEitherCredential(index, hasLogin, hasPassword) ==
    index < maxRealAnalyses /\ (hasLogin \/ hasPassword)

eligible(index, hasLogin, hasPassword) ==
    index < maxRealAnalyses /\ hasLogin /\ hasPassword

(***************************************************************************)
(* analyses.sort((a, b) => b.opportunity - a.opportunity): the engine's    *)
(* sort is stable; on these short arrays it is an insertion sort.          *)
(***************************************************************************)
compare(a, b) == b.opportunity - a.opportunity

\* The sorted array with x put in: before the first element x must precede.
RECURSIVE insertSortedBeforeEqual(_, _)
insertSortedBeforeEqual(sorted, x) ==
    IF sorted = <<>> THEN <<x>>
    ELSE IF compare(Head(sorted), x) >= 0 THEN <<x>> \o sorted
    ELSE <<Head(sorted)>> \o insertSortedBeforeEqual(Tail(sorted), x)

RECURSIVE insertSorted(_, _)
insertSorted(sorted, x) ==
    IF sorted = <<>> THEN <<x>>
    ELSE IF compare(Head(sorted), x) > 0 THEN <<x>> \o sorted
    ELSE <<Head(sorted)>> \o insertSorted(Tail(sorted), x)

RECURSIVE sortFrom(_, _)
sortFrom(sorted, rest) ==
    IF rest = <<>> THEN sorted
    ELSE sortFrom(insertSorted(sorted, Head(rest)), Tail(rest))

sortByOpportunity(a) == sortFrom(<<>>, a)

(***************************************************************************)
(* The responses.                                                          *)
(***************************************************************************)
RECURSIVE sumSearchVolume(_)
sumSearchVolume(a) ==
    IF a = <<>> THEN 0 ELSE Head(a).searchVolume + sumSearchVolume(Tail(a))

NoResponse == [status |-> 0]

badRequest ==
    [status |-> 400, error |-> "Missing required fields: teamName and keywords array"]

analysisFailed == [status |-> 500, error |-> "Analysis failed"]

successResponse(req, sorted) ==
    [status |-> 200,
     success |-> TRUE,
     teamName |-> req.teamName,
     league |-> req.league,
     totalKeywords |-> Len(req.keywords),
     analyses |-> sorted,
     summary |->
        [highOpportunity |-> Cardinality({k \in 1..Len(sorted) : sorted[k].opportunity >= 7}),
         totalSearchVolume |-> sumSearchVolume(sorted),
         realDataCount |-> Cardinality({k \in 1..Len(sorted) : sorted[k].isRealData})]]


(***************************************************************************)
(* The handler of POST /api/analyze, one action per stretch of code        *)
(* between two awaits.                                                     *)
(***************************************************************************)
Idle == [fn |-> "none"]

Init ==
    /\ login \in BOOLEAN
    /\ password \in BOOLEAN
    /\ request \in Requests
    /\ pc = "start"
    /\ i = 0
    /\ analyses = <<>>
    /\ taskId = <<>>
    /\ reply = <<>>
    /\ calls = <<>>
    /\ collected = <<>>
    /\ response = NoResponse
    /\ fnIn = Idle
    /\ fnOut = Idle

\* analyses.push(analysis) and the loop's i++, or the outer catch's 500.
Collect(outcome) ==
    IF outcome.threw
    THEN /\ response' = analysisFailed
         /\ pc' = "done"
         /\ UNCHANGED <<i, analyses>>
    ELSE /\ analyses' = analyses \o outcome.analysis
         /\ i' = i + 1
         /\ pc' = "loop"
         /\ UNCHANGED response

\* Lines 216-229.
Validate ==
    /\ pc = "start"
    /\ IF request.teamName = <<>> \/ ~request.keywordsIsArray
       THEN /\ response' = badRequest
            /\ pc' = "done"
       ELSE /\ pc' = "loop"
            /\ UNCHANGED response
    /\ UNCHANGED <<login, password, request, i, analyses, taskId, reply, calls,
                   collected, fnIn, fnOut>>

\* Lines 231-235 and 274-279: a keyword that goes straight to simulation.
SimulateKeyword ==
    /\ pc = "loop"
    /\ i < processedCount(request.keywords)
    /\ ~eligible(i, login, password)
    /\ \E r1 \in NotFoundDraws, r2 \in RankDraws, r3 \in VolumeDraws :
          Collect(analyzeSimulated(request.keywords[i + 1], request.teamName, r1, r2, r3))
    /\ UNCHANGED <<login, password, request, taskId, reply, calls, collected, fnIn, fnOut>>

\* Lines 231-238, 57-69 and 22-37: an eligible keyword; task_post is sent.
SubmitTask ==
    /\ pc = "loop"
    /\ i < processedCount(request.keywords)
    /\ eligible(i, login, password)
    /\ calls' = Append(calls, [op |-> "task_post", index |-> i])
    /\ pc' = "awaitSubmit"
    /\ UNCHANGED <<login, password, request, i, analyses, taskId, reply, collected,
                   response, fnIn, fnOut>>

\* The provider, or the network, settles the pending fetch.
ProviderAnswers ==
    /\ pc \in {"awaitSubmit", "awaitGet"}
    /\ reply = <<>>
    /\ \E r \in ProviderReplies : reply' = <<r>>
    /\ UNCHANGED <<login, password, request, pc, i, analyses, taskId, calls, collected,
                   response, fnIn, fnOut>>

\* Lines 39-54 and 69-76 when the task was accepted (the timer is started);
\* otherwise, also lines 86-89 and 240-279.
TaskPosted ==
    /\ pc = "awaitSubmit"
    /\ reply # <<>>
    /\ LET posted == getRealSERPDataPosted(reply[1])
       IN  IF posted.returned
           THEN /\ \E r1 \in NotFoundDraws, r2 \in RankDraws, r3 \in VolumeDraws :
                      Collect(analyzeReal(request.keywords[i + 1], request.teamName,
                                          posted.serpData, r1, r2, r3))
                /\ UNCHANGED taskId
           ELSE /\ taskId' = posted.taskId
                /\ pc' = "wait"
                /\ UNCHANGED <<i, analyses, response>>
    /\ reply' = <<>>
    /\ UNCHANGED <<login, password, request, calls, collected, fnIn, fnOut>>

\* Lines 76-80: the 5 s timer fires; task_get is sent.
TimerFires ==
    /\ pc = "wait"
    /\ calls' = Append(calls, [op |-> "task_get", index |-> i])
    /\ pc' = "awaitGet"
    /\ UNCHANGED <<login, password, request, i, analyses, taskId, reply, collected,
                   response, fnIn, fnOut>>

\* Lines 39-54, 80-90 and 240-279.
TaskGot ==
    /\ pc = "awaitGet"
    /\ reply # <<>>
    /\ \E r1 \in NotFoundDraws, r2 \in RankDraws, r3 \in VolumeDraws :
          Collect(analyzeReal(request.keywords[i + 1], request.teamName,
                              getRealSERPDataGot(reply[1]), r1, r2, r3))
    /\ reply' = <<>>
    /\ taskId' = <<>>
    /\ UNCHANGED <<login, password, request, calls, collected, fnIn, fnOut>>

\* Lines 231 and 282-298: the loop is over; sort in place and answer.
Respond ==
    /\ pc = "loop"
    /\ ~(i < processedCount(request.keywords))
    /\ collected' = analyses
    /\ analyses' = sortByOpportunity(analyses)
    /\ response' = successResponse(request, analyses')
    /\ pc' = "done"
    /\ UNCHANGED <<login, password, request, i, taskId, reply, calls, fnIn, fnOut>>

Next ==
    \/ Validate
    \/ SimulateKeyword
    \/ SubmitTask
    \/ ProviderAnswers
    \/ TaskPosted
    \/ TimerFires
    \/ TaskGot
    \/ Respond

Spec == Init /\ [][Next]_vars


(***************************************************************************)
(* Direct calls of the pure helpers.  A keyword is put together from the   *)
(* phrases of a chosen set, feat; a competitor is drawn from a pool that   *)
(* records, for each domain, whether it contains a resale domain (resale)  *)
(* and whether it is one of the three the gap classifier names (exact).    *)
(***************************************************************************)
Phrases == <<FirstTime, WhatToExpect, Parking, Tickets, Cheap, Seating, Arena>>
PhraseNames ==
    <<"first time", "what to expect", "parking", "tickets", "cheap", "seating", "arena">>

RECURSIVE KeywordFrom(_, _)
KeywordFrom(feat, k) ==
    IF k > Len(Phrases) THEN <<>>
    ELSE (IF PhraseNames[k] \in feat THEN <<Sp>> \o Phrases[k] ELSE <<>>)
         \o KeywordFrom(feat, k + 1)

KeywordOf(feat) == <<"bruins">> \o KeywordFrom(feat, 1)

CompetitorPool ==
    { [d |-> StubhubCom, resale |-> TRUE, exact |-> TRUE],
      [d |-> <<"www", Dot, "stubhub", Dot, "com">>, resale |-> TRUE, exact |-> FALSE],
      [d |-> VividseatsCom, resale |-> TRUE, exact |-> FALSE],
      [d |-> Domain("reddit"), resale |-> FALSE, exact |-> FALSE] }

CompetitorLists ==
    UNION { [1..n -> CompetitorPool] : n \in 0..MaxCompetitors }

Ranks == {-1} \cup (1..MaxRank)

DomainsOf(cs) == [k \in 1..Len(cs) |-> cs[k].d]

InitFn ==
    /\ login = FALSE
    /\ password = FALSE
    /\ request = [teamName |-> <<>>, league |-> "NHL", keywordsIsArray |-> FALSE,
                  keywords |-> <<>>]
    /\ pc = "off"
    /\ i = 0
    /\ analyses = <<>>
    /\ taskId = <<>>
    /\ reply = <<>>
    /\ calls = <<>>
    /\ collected = <<>>
    /\ response = NoResponse
    /\ fnIn = Idle
    /\ fnOut = Idle

CallScore ==
    /\ fnOut = Idle
    /\ \E feat \in SUBSET {PhraseNames[k] : k \in 1..Len(PhraseNames)},
          teamRank \in Ranks, cs \in CompetitorLists :
          /\ fnIn' = [fn |-> "calculateOpportunityScore", feat |-> feat,
                      teamRank |-> teamRank, competitors |-> cs]
          /\ fnOut' = [fn |-> "calculateOpportunityScore",
                       value |-> calculateOpportunityScore(KeywordOf(feat), teamRank,
                                                           DomainsOf(cs))]
    /\ UNCHANGED <<login, password, request, pc, i, analyses, taskId, reply, calls,
                   collected, response>>

CallGapType ==
    /\ fnOut = Idle
    /\ \E feat \in SUBSET {PhraseNames[k] : k \in 1..Len(PhraseNames)},
          cs \in CompetitorLists :
          /\ fnIn' = [fn |-> "getGapType", feat |-> feat, teamRank |-> -1,
                      competitors |-> cs]
          /\ fnOut' = [fn |-> "getGapType",
                       value |-> getGapType(KeywordOf(feat), DomainsOf(cs))]
    /\ UNCHANGED <<login, password, request, pc, i, analyses, taskId, reply, calls,
                   collected, response>>

NextFn ==
    \/ CallScore
    \/ CallGapType

SpecFn == InitFn /\ [][NextFn]_vars


(***************************************************************************)
(* Vocabulary of the properties.                                           *)
(***************************************************************************)
\* The request passes the handler's validation.
PassesValidation == request.teamName # <<>> /\ request.keywordsIsArray

\* The request is of the interface's type: every keyword is a string.
KeywordsAreStrings ==
    \A k \in 1..Len(request.keywords) : request.keywords[k].isString

Succeeded == response.status = 200

RealIndexes(a) == {k \in 1..Len(a) : a[k].isRealData}

RecordFields ==
    {"keyword", "opportunity", "gapType", "teamRank", "competitors",
     "contentSuggestion", "llmStrategy", "searchVolume", "isRealData", "cost"}

GapTypes ==
    {"First-Timer Experience Gap", "Arena Information Gap", "Ticket Reseller Dominance",
     "Venue Experience Gap", "General Content Gap"}

\* A record as the Simulation Fallback Engine makes it: every field there.
FullySimulated(rec, kw) ==
    /\ DOMAIN rec = RecordFields
    /\ rec.keyword = kw
    /\ rec.isRealData = FALSE
    /\ rec.cost = 0
    /\ rec.opportunity \in 3..10
    /\ rec.gapType \in GapTypes
    /\ Len(rec.teamRank) \in {1, 2}
    /\ Len(rec.competitors) = 3
    /\ DOMAIN rec.contentSuggestion = {"title", "format", "cta"}
    /\ rec.llmStrategy # ""
    /\ rec.searchVolume >= 50

Last(a) == a[Len(a)]

\* The handler is about to consume the provider's reply to the named call.
Consuming(op) ==
    /\ pc = (IF op = "task_post" THEN "awaitSubmit" ELSE "awaitGet")
    /\ reply # <<>>

CallsOf(op, index) ==
    {k \in 1..Len(calls) : calls[k].op = op /\ calls[k].index = index}

(***************************************************************************)
(* C1.  In a success response at most 3 records have isRealData = TRUE,    *)
(* whatever the number of keywords and the provider's answers, and a       *)
(* record with isRealData = TRUE belongs to one of the first 3 processed   *)
(* keywords.                                                               *)
(***************************************************************************)
RealDataCap ==
    /\ \A k \in RealIndexes(IF pc = "done" THEN collected ELSE analyses) : k <= 3
    /\ Succeeded =>
          /\ Cardinality(RealIndexes(response.analyses)) <= 3
          /\ response.summary.realDataCount <= 3

RealDataCapWitness ==
    /\ Succeeded
    /\ Len(request.keywords) > 5
    /\ RealIndexes(collected) = {1, 2, 3}
    /\ Cardinality(RealIndexes(response.analyses)) = 3

(***************************************************************************)
(* C2.  A request that passes validation (its keywords being strings) is   *)
(* answered with exactly min(5, keywords.length) records: the k-th         *)
(* collected record is the k-th keyword's, and the response holds the      *)
(* collected records and no other.                                         *)
(***************************************************************************)
Occurrences(a, x) == Cardinality({k \in 1..Len(a) : a[k] = x})

SameRecords(a, b) ==
    /\ Len(a) = Len(b)
    /\ \A k \in 1..Len(a) : Occurrences(a, a[k]) = Occurrences(b, a[k])

OneRecordPerProcessedKeyword ==
    /\ (pc = "done" /\ PassesValidation /\ KeywordsAreStrings) => Succeeded
    /\ Succeeded =>
          LET n == IF Len(request.keywords) < 5 THEN Len(request.keywords) ELSE 5
          IN  /\ Len(response.analyses) = n
              /\ Len(collected) = n
              /\ \A k \in 1..n : collected[k].keyword = request.keywords[k].s
              /\ SameRecords(collected, response.analyses)

OneRecordPerProcessedKeywordWitness ==
    /\ Succeeded
    /\ Len(request.keywords) = 6
    /\ Len(response.analyses) = 5
    /\ RealIndexes(collected) = {1, 3}

(***************************************************************************)
(* C3.  For an eligible keyword, every provider failure (network error,    *)
(* non-success HTTP status, status_code other than 20000, no job           *)
(* identifier on submit, no result set on retrieve) ends the keyword with  *)
(* a fully populated simulated record, and the request is not answered     *)
(* with 500.                                                               *)
(***************************************************************************)
TransportFailure(r) == ~r.net \/ ~r.ok \/ r.status_code # 20000

NoJobIdentifier(r) == Len(r.tasks) = 0 \/ r.tasks[1].id = <<>>

NoResultSet(r) ==
    Len(r.tasks) = 0 \/ ~r.tasks[1].hasResult \/ Len(r.tasks[1].result) = 0

ProviderFailed ==
    \/ Consuming("task_post") /\ (TransportFailure(reply[1]) \/ NoJobIdentifier(reply[1]))
    \/ Consuming("task_get") /\ (TransportFailure(reply[1]) \/ NoResultSet(reply[1]))

ProviderFailureFallsBack ==
    [][ /\ (ProviderFailed /\ request.keywords[i + 1].isString) =>
              /\ pc' = "loop"
              /\ i' = i + 1
              /\ calls' = calls
              /\ response' = response
              /\ Len(analyses') = Len(analyses) + 1
              /\ SubSeq(analyses', 1, Len(analyses)) = analyses
              /\ FullySimulated(Last(analyses'), request.keywords[i + 1].s)
        /\ (response'.status = 500 => ~KeywordsAreStrings) ]_vars

ProviderFailureFallsBackWitness ==
    /\ Succeeded
    /\ Len(calls) = 3
    /\ CallsOf("task_post", 0) # {} /\ CallsOf("task_get", 0) = {}
    /\ CallsOf("task_post", 1) # {} /\ CallsOf("task_get", 1) # {}
    /\ RealIndexes(collected) = {}

(***************************************************************************)
(* C4.  When the retrieval succeeds and the returned result set has an     *)
(* empty item list, the keyword's record is a simulated one, with          *)
(* isRealData = FALSE and cost = 0.                                        *)
(***************************************************************************)
RetrievedEmptyItemList ==
    /\ Consuming("task_get")
    /\ ~TransportFailure(reply[1])
    /\ ~NoResultSet(reply[1])
    /\ reply[1].tasks[1].result[1].hasItems
    /\ reply[1].tasks[1].result[1].items = <<>>

EmptyItemListFallsBack ==
    [][ (RetrievedEmptyItemList /\ request.keywords[i + 1].isString) =>
            /\ Len(analyses') = Len(analyses) + 1
            /\ Last(analyses').isRealData = FALSE
            /\ Last(analyses').cost = 0 ]_vars

(***************************************************************************)
(* C5.  On the real-data path the record's team rank is index+1 of the     *)
(* first item whose domain the Team-Site Matcher accepts, and "Not found"  *)
(* when no item matches.                                                   *)
(***************************************************************************)
MatchingPositions(items, teamName) ==
    {k \in 1..Len(items) : isTeamSite(items[k].domain, teamName)}

FirstMatchingPosition(items, teamName) ==
    IF MatchingPositions(items, teamName) = {} THEN -1
    ELSE CHOOSE k \in MatchingPositions(items, teamName) :
             \A j \in MatchingPositions(items, teamName) : k <= j

RetrievedItems ==
    /\ Consuming("task_get")
    /\ ~TransportFailure(reply[1])
    /\ ~NoResultSet(reply[1])
    /\ reply[1].tasks[1].result[1].hasItems

TeamRankIsFirstMatch ==
    [][ (RetrievedItems /\ request.keywords[i + 1].isString) =>
            /\ Len(analyses') = Len(analyses) + 1
            /\ Last(analyses').teamRank =
                  (LET first == FirstMatchingPosition(reply[1].tasks[1].result[1].items,
                                                      request.teamName)
                   IN  IF first = -1 THEN <<"Not found">> ELSE <<"#", first>>) ]_vars


(***************************************************************************)
(* C6.  calculateOpportunityScore returns                                  *)
(* clamp(5 + 3[first time | what to expect] + 2[parking]                   *)
(*       + 2[tickets | cheap] + 1[seating] + rankAdj                       *)
(*       + 1[some competitor contains a resale domain], 3, 10),            *)
(* rankAdj being +3 for -1, +2 above 10, +1 for 6..10, 0 for 4..5 and -1   *)
(* for 1..3; so the score is an integer of 3..10.                          *)
(***************************************************************************)
Bonus(cond, n) == IF cond THEN n ELSE 0

RankAdjustment(teamRank) ==
    CASE teamRank = -1 -> 3
      [] teamRank \in 1..3 -> -1
      [] teamRank \in 4..5 -> 0
      [] teamRank \in 6..10 -> 1
      [] OTHER -> 2

Clamp(x, lo, hi) == IF x < lo THEN lo ELSE IF x > hi THEN hi ELSE x

ScoreIsClampedSum ==
    fnOut.fn = "calculateOpportunityScore" =>
        /\ fnOut.value =
              Clamp(5 + Bonus("first time" \in fnIn.feat \/ "what to expect" \in fnIn.feat, 3)
                      + Bonus("parking" \in fnIn.feat, 2)
                      + Bonus("tickets" \in fnIn.feat \/ "cheap" \in fnIn.feat, 2)
                      + Bonus("seating" \in fnIn.feat, 1)
                      + RankAdjustment(fnIn.teamRank)
                      + Bonus(\E k \in 1..Len(fnIn.competitors) :
                                  fnIn.competitors[k].resale, 1),
                    3, 10)
        /\ fnOut.value \in 3..10

ScoreIsClampedSumWitness ==
    /\ fnOut.fn = "calculateOpportunityScore"
    /\ fnIn.feat = {"parking", "seating"}
    /\ fnIn.teamRank = 3
    /\ Len(fnIn.competitors) = 2
    /\ ~fnIn.competitors[1].resale
    /\ fnIn.competitors[2].resale /\ ~fnIn.competitors[2].exact
    /\ fnOut.value = 8

(***************************************************************************)
(* C7.  The response's analyses are the collected records ordered by       *)
(* opportunity descending, records of equal opportunity keeping the order  *)
(* in which their keywords were processed: the j-th collected record       *)
(* stands after the records of greater opportunity and the earlier records *)
(* of equal opportunity, and after no other.                               *)
(***************************************************************************)
StablePosition(a, j) ==
    1 + Cardinality({m \in 1..Len(a) : a[m].opportunity > a[j].opportunity})
      + Cardinality({m \in 1..(j - 1) : a[m].opportunity = a[j].opportunity})

SortedByOpportunityStable ==
    Succeeded =>
        /\ Len(response.analyses) = Len(collected)
        /\ \A j \in 1..Len(collected) :
              response.analyses[StablePosition(collected, j)] = collected[j]
        /\ \A k \in 1..(Len(response.analyses) - 1) :
              response.analyses[k].opportunity >= response.analyses[k + 1].opportunity

SortedByOpportunityStableWitness ==
    /\ Succeeded
    /\ Len(collected) = 5
    /\ collected # response.analyses
    /\ \E j \in 1..5, k \in 1..5 :
          /\ j < k
          /\ collected[j].opportunity = collected[k].opportunity
          /\ collected[j].keyword # collected[k].keyword
          /\ \E m \in 1..(j - 1) : collected[m].opportunity < collected[j].opportunity

(***************************************************************************)
(* C8.  When the login or the password is not configured, nothing is sent  *)
(* to the provider, every record has isRealData = FALSE and cost = 0,      *)
(* summary.realDataCount is 0 and the request is answered with 200.        *)
(***************************************************************************)
MissingCredentialMeansSimulation ==
    (~login \/ ~password) =>
        /\ calls = <<>>
        /\ reply = <<>>
        /\ pc \notin {"awaitSubmit", "wait", "awaitGet"}
        /\ \A k \in 1..Len(analyses) : ~analyses[k].isRealData /\ analyses[k].cost = 0
        /\ Succeeded =>
              /\ response.summary.realDataCount = 0
              /\ \A k \in 1..Len(response.analyses) :
                    ~response.analyses[k].isRealData /\ response.analyses[k].cost = 0
        /\ (pc = "done" /\ PassesValidation /\ KeywordsAreStrings) => Succeeded

MissingCredentialMeansSimulationWitness ==
    /\ login /\ ~password
    /\ Succeeded
    /\ Len(response.analyses) = 5
    /\ response.summary.realDataCount = 0

(***************************************************************************)
(* C9.  getGapType is first-match-wins: first-timer keyword, then          *)
(* "parking", then a competitor equal to ticketmaster.com, stubhub.com or  *)
(* seatgeek.com, then "seating" or "arena", then the default; a "parking"  *)
(* keyword with a resale competitor is an "Arena Information Gap".         *)
(***************************************************************************)
GapTypeIsFirstMatch ==
    fnOut.fn = "getGapType" =>
        fnOut.value =
            (CASE "first time" \in fnIn.feat \/ "what to expect" \in fnIn.feat ->
                      "First-Timer Experience Gap"
               [] "parking" \in fnIn.feat -> "Arena Information Gap"
               [] \E k \in 1..Len(fnIn.competitors) : fnIn.competitors[k].exact ->
                      "Ticket Reseller Dominance"
               [] "seating" \in fnIn.feat \/ "arena" \in fnIn.feat ->
                      "Venue Experience Gap"
               [] OTHER -> "General Content Gap")

GapTypeIsFirstMatchWitness ==
    /\ fnOut.fn = "getGapType"
    /\ "parking" \in fnIn.feat
    /\ "first time" \notin fnIn.feat /\ "what to expect" \notin fnIn.feat
    /\ \E k \in 1..Len(fnIn.competitors) : fnIn.competitors[k].exact
    /\ fnOut.value = "Arena Information Gap"

(***************************************************************************)
(* C10.  Within a request each keyword gets at most one task_post and at   *)
(* most one task_get; a task_get is sent only from the wait that follows   *)
(* an accepted task_post (a reply without error that names a job), never   *)
(* after a failed one; and a keyword's task_post is sent only when the     *)
(* records of all the keywords before it have been collected.              *)
(***************************************************************************)
SubmissionAccepted ==
    /\ Consuming("task_post")
    /\ ~TransportFailure(reply[1])
    /\ ~NoJobIdentifier(reply[1])

OneAttemptInOrder ==
    [][ /\ (pc' = "wait" /\ pc # "wait") => SubmissionAccepted
        /\ calls' # calls =>
              /\ Len(calls') = Len(calls) + 1
              /\ SubSeq(calls', 1, Len(calls)) = calls
              /\ Last(calls').index = i
              /\ Last(calls').op = "task_post" =>
                    /\ pc = "loop"
                    /\ Len(analyses) = i
                    /\ CallsOf("task_post", i) = {}
                    /\ CallsOf("task_get", i) = {}
              /\ Last(calls').op = "task_get" =>
                    /\ pc = "wait"
                    /\ taskId # <<>>
                    /\ Len(analyses) = i
                    /\ Cardinality(CallsOf("task_post", i)) = 1
                    /\ Last(calls).op = "task_post" /\ Last(calls).index = i
                    /\ CallsOf("task_get", i) = {} ]_vars

OneAttemptInOrderWitness ==
    /\ Succeeded
    /\ calls = << [op |-> "task_post", index |-> 0], [op |-> "task_get", index |-> 0],
                  [op |-> "task_post", index |-> 1],
                  [op |-> "task_post", index |-> 2], [op |-> "task_get", index |-> 2] >>
    /\ RealIndexes(collected) = {3}

====
